---- MODULE Spec2Model ----
(***************************************************************************)
(* Model of the SurrealDB HTTP client of src/main.go (first revision,      *)
(* lines 1-412): the configuration holder, the request builder             *)
(* (setRequest), the response normaliser (processRequest), the public      *)
(* operations Query, Signin and Signup, and the auth mutators.             *)
(*                                                                         *)
(* Go values are modelled as follows.                                      *)
(*   - a nil pointer / nil interface is Nil; a non-nil *string is Ptr(s);  *)
(*   - a Go map is a function whose domain is the set of its keys;         *)
(*   - a JSON document is a tagged record (JNull, JStr, JNum, JObj, JArr)  *)
(*     and NotJSON stands for bytes that are not a JSON text;              *)
(*   - http.Header is a function over canonical header names, as           *)
(*     req.Header.Set stores them.                                         *)
(***************************************************************************)
EXTENDS Integers, Sequences, FiniteSets, TLC

VARIABLES
    db,      \* the Surreal struct returned by the constructor
    last,    \* the most recent public call: its arguments, request and result
    bpc,     \* position of a request builder racing with the mutators
    bld      \* that builder's locals and what was stored in db.Auth meanwhile

vars == <<db, last, bpc, bld>>

-----------------------------------------------------------------------------
(* Bounds of the model.                                                    *)

\* most entries of the extra-variables map of SigninVars / SignupVars
MaxExtra == 2
\* most Authenticate / Invalidate calls that overlap one racing build
MaxMut == 1

-----------------------------------------------------------------------------
(* Go values.                                                              *)

Nil == [nil |-> TRUE]
Ptr(s) == [ptr |-> s]

\* a non-nil Go error whose Error() is text
Err(text) == [error |-> text]

\* Go values held in interface{}.
GoString(s) == [go |-> "string", s |-> s]
GoInt(n) == [go |-> "int", n |-> n]
GoChan == [go |-> "chan"]

\* JSON documents.
NotJSON == [t |-> "invalid"]
JNull == [t |-> "null"]
JStr(s) == [t |-> "string", s |-> s]
JNum(n) == [t |-> "number", n |-> n]
JObj(f) == [t |-> "object", f |-> f]
JArr(a) == [t |-> "array", a |-> a]

\* The empty Go map.
EmptyMap == <<>>

\* m[k] = v on a Go map.
Put(m, k, v) == [x \in (DOMAIN m) \cup {k} |-> IF x = k THEN v ELSE m[x]]

-----------------------------------------------------------------------------
(* Strings the model draws its inputs from.                                *)

VersionLegacy == "1.x <="
VersionCurrent == ">= 2.x"

GoodURL == "http://localhost:8000"
\* a base URL that url.Parse rejects (missing ']' in host)
BadURL == "http://[::1"

VersionInputs == {"", VersionCurrent, VersionLegacy, "2.x"}
URLInputs == {GoodURL, BadURL}
ClientNamespace == "test"
ClientDatabase == "app"

Methods == {"Root", "Token", "Scope", "root", ""}
Usernames == {"root", "ab"}
Passwords == {"pw"}
NamespaceOverrides == {"", "ons"}
DatabaseOverrides == {"", "odb"}
Tokens == {"eyJ"}
Scopes == {"acct"}

AuthVarsSet ==
    [Username : Usernames, Password : Passwords,
     Namespace : NamespaceOverrides, Database : DatabaseOverrides]

\* Root with every combination of its variables; the other methods with
\* one user and the overrides both set or both empty
AuthConfigs ==
    {a \in [Method : Methods, Vars : AuthVarsSet, Token : Tokens,
            Scope : Scopes] :
        \/ a.Method = "Root"
        \/ /\ a.Vars.Username = "root"
           /\ (a.Vars.Namespace = "") <=> (a.Vars.Database = "")}

\* the values of a *AuthConfig
AuthPointers == AuthConfigs \cup {Nil}

-----------------------------------------------------------------------------
(* base64.StdEncoding.EncodeToString, on the bytes of a string.            *)

\* the UTF-8 bytes of the credential strings of the model
Bytes(s) ==
    CASE s = "" -> <<>>
      [] s = "root" -> <<114, 111, 111, 116>>
      [] s = "ab" -> <<97, 98>>
      [] s = "pw" -> <<112, 119>>
      [] s = ":" -> <<58>>

Alphabet ==
    << "A", "B", "C", "D", "E", "F", "G", "H", "I", "J", "K", "L", "M",
       "N", "O", "P", "Q", "R", "S", "T", "U", "V", "W", "X", "Y", "Z",
       "a", "b", "c", "d", "e", "f", "g", "h", "i", "j", "k", "l", "m",
       "n", "o", "p", "q", "r", "s", "t", "u", "v", "w", "x", "y", "z",
       "0", "1", "2", "3", "4", "5", "6", "7", "8", "9", "+", "/" >>

Sextet(n) == Alphabet[n + 1]

RECURSIVE EncodeToString(_)
EncodeToString(b) ==
    IF Len(b) = 0 THEN ""
    ELSE IF Len(b) = 1 THEN
        Sextet(b[1] \div 4) \o Sextet((b[1] % 4) * 16) \o "=="
    ELSE IF Len(b) = 2 THEN
        Sextet(b[1] \div 4) \o Sextet((b[1] % 4) * 16 + (b[2] \div 16))
            \o Sextet((b[2] % 16) * 4) \o "="
    ELSE
        Sextet(b[1] \div 4) \o Sextet((b[1] % 4) * 16 + (b[2] \div 16))
            \o Sextet((b[2] % 16) * 4 + (b[3] \div 64)) \o Sextet(b[3] % 64)
            \o EncodeToString(SubSeq(b, 4, Len(b)))

-----------------------------------------------------------------------------
(* The constructor.                                                        *)

\* the constructor defaulting only an unset version
SurrealDBUnsetOnly(config) ==
    IF config.Version = ""
    THEN [config EXCEPT !.Version = VersionCurrent]
    ELSE config

SurrealDB(config) ==
    IF config.Version = ""
       \/ (config.Version # VersionCurrent /\ config.Version # VersionLegacy)
    THEN [config EXCEPT !.Version = VersionCurrent]
    ELSE config

-----------------------------------------------------------------------------
(* The request builder.                                                    *)

\* textproto.CanonicalMIMEHeaderKey, as applied by req.Header.Set
CanonicalKey(k) ==
    CASE k = "Accept" -> "Accept"
      [] k = "Content-Type" -> "Content-Type"
      [] k = "NS" -> "Ns"
      [] k = "DB" -> "Db"
      [] k = "surreal-ns" -> "Surreal-Ns"
      [] k = "surreal-db" -> "Surreal-Db"
      [] k = "Authorization" -> "Authorization"
      [] k = "SC" -> "Sc"
      [] k = "username" -> "Username"
      [] k = "password" -> "Password"
      [] k = "namespace" -> "Namespace"
      [] k = "database" -> "Database"

\* for key, value := range headers { req.Header.Set(key, value) }
SetHeaders(headers) ==
    [c \in {CanonicalKey(k) : k \in DOMAIN headers} |->
        headers[CHOOSE k \in DOMAIN headers : CanonicalKey(k) = c]]

\* req.Header has a value under this name (names are case-insensitive)
Has(header, name) == CanonicalKey(name) \in DOMAIN header

\* req.Header.Get
Get(header, name) ==
    IF Has(header, name) THEN header[CanonicalKey(name)] ELSE ""

ToMap(a) ==
    [username |-> a.Username, password |-> a.Password,
     namespace |-> a.Namespace, database |-> a.Database]

BaseHeaders ==
    Put(Put(EmptyMap, "Accept", "application/json"),
        "Content-Type", "application/json")

\* lines 99-106: the scope headers of the version
VersionHeaders(d, headers) ==
    IF d.Version = VersionLegacy
    THEN Put(Put(headers, "NS", d.Namespace), "DB", d.Database)
    ELSE Put(Put(headers, "surreal-ns", d.Namespace), "surreal-db", d.Database)

BasicAuth(username, password) ==
    "Basic " \o EncodeToString(Bytes(username) \o Bytes(":") \o Bytes(password))

RootHeaders(auth, headers) ==
    LET h1 == Put(headers, "Authorization",
                  BasicAuth(auth.Vars.Username, auth.Vars.Password))
        h2 == IF auth.Vars.Namespace # ""
              THEN Put(h1, "NS", auth.Vars.Namespace) ELSE h1
    IN IF auth.Vars.Database # ""
       THEN Put(h2, "DB", auth.Vars.Database) ELSE h2

TokenHeaders(auth, headers) ==
    Put(headers, "Authorization", "Bearer " \o auth.Token)

\* the Scope case also sending the token as a bearer
ScopeHeadersWithBearer(auth, headers) ==
    LET m == ToMap(auth.Vars)
        h1 == Put(Put(headers, "SC", auth.Scope),
                  "Authorization", "Bearer " \o auth.Token)
    IN [k \in (DOMAIN h1) \cup (DOMAIN m) |->
            IF k \in DOMAIN m THEN m[k] ELSE h1[k]]

ScopeHeaders(auth, headers) ==
    LET m == ToMap(auth.Vars)
        h1 == Put(headers, "SC", auth.Scope)
    IN [k \in (DOMAIN h1) \cup (DOMAIN m) |->
            IF k \in DOMAIN m THEN m[k] ELSE h1[k]]

\* the switch with a default case that sends the token
AuthHeadersDefaultToken(auth, headers) ==
    IF auth # Nil
    THEN CASE auth.Method = "Root" -> RootHeaders(auth, headers)
           [] auth.Method = "Token" -> TokenHeaders(auth, headers)
           [] auth.Method = "Scope" -> ScopeHeaders(auth, headers)
           [] OTHER -> TokenHeaders(auth, headers)
    ELSE headers

\* lines 108-129: the authentication headers
AuthHeaders(auth, headers) ==
    IF auth # Nil
    THEN CASE auth.Method = "Root" -> RootHeaders(auth, headers)
           [] auth.Method = "Token" -> TokenHeaders(auth, headers)
           [] auth.Method = "Scope" -> ScopeHeaders(auth, headers)
           [] OTHER -> headers
    ELSE headers

\* json.Marshal of one value held in interface{}
MarshalValue(v) ==
    CASE v.go = "string" -> JStr(v.s)
      [] v.go = "int" -> JNum(v.n)
      [] OTHER -> NotJSON

\* json.Marshal(payload) fails on a value it has no encoding for
Marshals(payload) == \A k \in DOMAIN payload : payload[k].go # "chan"

Marshal(payload) == JObj([k \in DOMAIN payload |-> MarshalValue(payload[k])])

\* a URL is kept in parts; url.Parse fails on the malformed base
URLString(u) ==
    IF u.query = "" THEN u.base \o u.path
    ELSE u.base \o u.path \o "?" \o u.query

URLParses(u) == u.base # BadURL

\* setRequest: (req, nil) or (nil, err)
setRequest(d, url, method, body, isRaw) ==
    LET headers == AuthHeaders(d.Auth, VersionHeaders(d, BaseHeaders))
    IN IF ~isRaw /\ ~Marshals(body)
       THEN [req |-> Nil, err |-> Err("json: unsupported type: chan int")]
       ELSE IF ~URLParses(url)
       THEN [req |-> Nil, err |-> Err("parse: missing ']' in host")]
       ELSE [req |-> [method |-> method,
                      url |-> URLString(url),
                      header |-> SetHeaders(headers),
                      body |-> IF isRaw THEN [t |-> "raw", s |-> body]
                               ELSE Marshal(body)],
             err |-> Nil]

-----------------------------------------------------------------------------
(* The response normaliser.                                                *)

\* what client.Do and io.ReadAll give back
TransportFailure ==
    [kind |-> "fail", err |-> Err("dial tcp: connection refused")]
ReadFailure(status) ==
    [kind |-> "response", status |-> status, readOK |-> FALSE,
     err |-> Err("unexpected EOF"), body |-> NotJSON]
Response(status, body) ==
    [kind |-> "response", status |-> status, readOK |-> TRUE,
     err |-> Nil, body |-> body]

StatusOK == 200

ProblemDetails == "Request problems detected"
ProblemDescription ==
    "There is a problem with your request. Refer to the documentation for further information."

\* the RequestError literal of lines 163-168, 186-191, 220-225, ...
Problem(information) ==
    [Code |-> 500, Details |-> ProblemDetails,
     Description |-> ProblemDescription, Information |-> information]

\* the texts of the errors json.Unmarshal returns
SyntaxErrorText == "invalid character '<' looking for beginning of value"
TypeErrorText == "json: cannot unmarshal value into Go struct field"

\* a member of a JSON object cannot be stored in a Go field of type ty
Mismatch(f, key, ty) == key \in DOMAIN f /\ f[key].t \notin {ty, "null"}

\* the Go field a member of a JSON object sets, zero when absent or null
IntField(f, key) ==
    IF key \in DOMAIN f /\ f[key].t = "number" THEN f[key].n ELSE 0
StringField(f, key) ==
    IF key \in DOMAIN f /\ f[key].t = "string" THEN f[key].s ELSE ""
PtrField(f, key) ==
    IF key \in DOMAIN f /\ f[key].t = "string" THEN Ptr(f[key].s) ELSE Nil
AnyField(f, key) ==
    IF key \in DOMAIN f /\ f[key].t # "null" THEN f[key] ELSE Nil

\* json.Unmarshal(body, &result) with result a RequestError
UnmarshalRequestError(body) ==
    CASE body.t = "invalid" ->
            [err |-> Err(SyntaxErrorText), val |-> Nil]
      [] body.t = "null" ->
            [err |-> Nil,
             val |-> [Code |-> 0, Details |-> "", Description |-> "",
                      Information |-> ""]]
      [] body.t = "object" ->
            IF \/ Mismatch(body.f, "code", "number")
               \/ Mismatch(body.f, "details", "string")
               \/ Mismatch(body.f, "description", "string")
               \/ Mismatch(body.f, "information", "string")
            THEN [err |-> Err(TypeErrorText), val |-> Nil]
            ELSE [err |-> Nil,
                  val |-> [Code |-> IntField(body.f, "code"),
                           Details |-> StringField(body.f, "details"),
                           Description |-> StringField(body.f, "description"),
                           Information |-> StringField(body.f, "information")]]
      [] OTHER -> [err |-> Err(TypeErrorText), val |-> Nil]

\* AuthenticationResult with a details tag that matches no member
UnmarshalAuthenticationResultNoDetails(body) ==
    CASE body.t = "invalid" ->
            [err |-> Err(SyntaxErrorText), val |-> Nil]
      [] body.t = "null" ->
            [err |-> Nil, val |-> [Code |-> 0, Details |-> "", Token |-> Nil]]
      [] body.t = "object" ->
            IF \/ Mismatch(body.f, "code", "number")
               \/ Mismatch(body.f, "token", "string")
            THEN [err |-> Err(TypeErrorText), val |-> Nil]
            ELSE [err |-> Nil,
                  val |-> [Code |-> IntField(body.f, "code"),
                           Details |-> "",
                           Token |-> PtrField(body.f, "token")]]
      [] OTHER -> [err |-> Err(TypeErrorText), val |-> Nil]

\* json.Unmarshal(res, &result) with result an AuthenticationResult
UnmarshalAuthenticationResult(body) ==
    CASE body.t = "invalid" ->
            [err |-> Err(SyntaxErrorText), val |-> Nil]
      [] body.t = "null" ->
            [err |-> Nil, val |-> [Code |-> 0, Details |-> "", Token |-> Nil]]
      [] body.t = "object" ->
            IF \/ Mismatch(body.f, "code", "number")
               \/ Mismatch(body.f, "details", "string")
               \/ Mismatch(body.f, "token", "string")
            THEN [err |-> Err(TypeErrorText), val |-> Nil]
            ELSE [err |-> Nil,
                  val |-> [Code |-> IntField(body.f, "code"),
                           Details |-> StringField(body.f, "details"),
                           Token |-> PtrField(body.f, "token")]]
      [] OTHER -> [err |-> Err(TypeErrorText), val |-> Nil]

\* one element of the array decoded into []QueryResult
QueryResultOf(item) ==
    IF item.t = "null"
    THEN [Result |-> Nil, Status |-> "", Time |-> ""]
    ELSE [Result |-> AnyField(item.f, "result"),
          Status |-> StringField(item.f, "status"),
          Time |-> StringField(item.f, "time")]

\* json.Unmarshal(res, &result) with result a []QueryResult
UnmarshalQueryResults(body) ==
    CASE body.t = "invalid" ->
            [err |-> Err(SyntaxErrorText), val |-> Nil]
      [] body.t = "null" ->
            [err |-> Nil, val |-> Nil]
      [] body.t = "array" ->
            IF \E i \in 1..Len(body.a) :
                  \/ body.a[i].t \notin {"object", "null"}
                  \/ /\ body.a[i].t = "object"
                     /\ \/ Mismatch(body.a[i].f, "status", "string")
                        \/ Mismatch(body.a[i].f, "time", "string")
            THEN [err |-> Err(TypeErrorText), val |-> Nil]
            ELSE [err |-> Nil,
                  val |-> [i \in 1..Len(body.a) |-> QueryResultOf(body.a[i])]]
      [] OTHER -> [err |-> Err(TypeErrorText), val |-> Nil]

\* processRequest putting the HTTP status into the decoded error
processRequestStatusAsCode(resp) ==
    IF resp.kind = "fail"
    THEN [body |-> Nil, err |-> Problem(resp.err.error)]
    ELSE IF ~resp.readOK
    THEN [body |-> Nil,
          err |-> [Code |-> 500,
                   Details |-> "Failed to read response body",
                   Description |-> "There was an error reading the response body.",
                   Information |-> resp.err.error]]
    ELSE IF resp.status # StatusOK
    THEN LET result == UnmarshalRequestError(resp.body)
         IN IF result.err # Nil
            THEN [body |-> Nil, err |-> Problem(result.err.error)]
            ELSE [body |-> Nil,
                  err |-> [result.val EXCEPT !.Code = resp.status]]
    ELSE [body |-> resp.body, err |-> Nil]

\* processRequest: (body, nil) or (nil, error)
processRequest(resp) ==
    IF resp.kind = "fail"
    THEN [body |-> Nil, err |-> Problem(resp.err.error)]
    ELSE IF ~resp.readOK
    THEN [body |-> Nil,
          err |-> [Code |-> 500,
                   Details |-> "Failed to read response body",
                   Description |-> "There was an error reading the response body.",
                   Information |-> resp.err.error]]
    ELSE IF resp.status # StatusOK
    THEN LET result == UnmarshalRequestError(resp.body)
         IN IF result.err # Nil
            THEN [body |-> Nil, err |-> Problem(result.err.error)]
            ELSE [body |-> Nil, err |-> result.val]
    ELSE [body |-> resp.body, err |-> Nil]

-----------------------------------------------------------------------------
(* Query.                                                                  *)

\* fmt.Sprintf("%v", value)
Stringify(v) ==
    CASE v.go = "string" -> v.s
      [] v.go = "int" -> ToString(v.n)

\* url.QueryEscape on the strings of the model
QueryEscape(s) ==
    CASE s = "Hello World!" -> "Hello+World%21"
      [] OTHER -> s

\* the keys a vars map may hold, in the order url.Values.Encode sorts them
SortedKeys == << "count", "message" >>

\* the loop adding every entry, a nil value as Sprintf prints it
QueryVarsKeepingNil(queryArgs) ==
    [k \in DOMAIN queryArgs |->
        IF queryArgs[k] = Nil THEN "<nil>" ELSE Stringify(queryArgs[k])]

\* queryVars after the loop of lines 206-210: the non-nil entries
QueryVars(queryArgs) ==
    [k \in {x \in DOMAIN queryArgs : queryArgs[x] # Nil} |->
        Stringify(queryArgs[k])]

\* url.Values.Encode over the keys from position i on
RECURSIVE EncodeFrom(_, _, _)
EncodeFrom(queryVars, i, first) ==
    IF i > Len(SortedKeys) THEN ""
    ELSE IF SortedKeys[i] \in DOMAIN queryVars
    THEN (IF first THEN "" ELSE "&")
            \o QueryEscape(SortedKeys[i]) \o "="
            \o QueryEscape(queryVars[SortedKeys[i]])
            \o EncodeFrom(queryVars, i + 1, FALSE)
    ELSE EncodeFrom(queryVars, i + 1, first)

Encode(queryVars) == EncodeFrom(queryVars, 1, TRUE)

Returned(val, err) == [kind |-> "return", val |-> val, err |-> err]
Panicked == [kind |-> "panic", val |-> Nil, err |-> Nil]

\* what a call did: the request it built, the requests it handed to
\* client.Do, and how it ended
Outcome(req, sent, ret) == [req |-> req, sent |-> sent, ret |-> ret]

\* Query sending the request again after a failed exchange
QueryRetrying(d, sql, queryArgs, resp) ==
    LET queryURL == [base |-> d.URL, path |-> "/sql",
                     query |-> Encode(QueryVars(queryArgs))]
        built == setRequest(d, queryURL, "POST", sql, TRUE)
        res == processRequest(resp)
        result == UnmarshalQueryResults(res.body)
    IN IF built.err # Nil
       THEN Outcome(Nil, <<>>, Returned(Nil, Problem(built.err.error)))
       ELSE IF res.err # Nil
       THEN Outcome(built.req, <<built.req, built.req>>,
                    Returned(Nil, res.err))
       ELSE IF result.err # Nil
       THEN Outcome(built.req, <<built.req>>,
                    Returned(Nil, Problem(result.err.error)))
       ELSE Outcome(built.req, <<built.req>>, Returned(result.val, Nil))

Query(d, sql, queryArgs, resp) ==
    LET queryURL == [base |-> d.URL, path |-> "/sql",
                     query |-> Encode(QueryVars(queryArgs))]
        built == setRequest(d, queryURL, "POST", sql, TRUE)
        res == processRequest(resp)
        result == UnmarshalQueryResults(res.body)
    IN IF built.err # Nil
       THEN Outcome(Nil, <<>>, Returned(Nil, Problem(built.err.error)))
       ELSE IF res.err # Nil
       THEN Outcome(built.req, <<built.req>>, Returned(Nil, res.err))
       ELSE IF result.err # Nil
       THEN Outcome(built.req, <<built.req>>,
                    Returned(Nil, Problem(result.err.error)))
       ELSE Outcome(built.req, <<built.req>>, Returned(result.val, Nil))

-----------------------------------------------------------------------------
(* Signin and Signup.                                                      *)

\* for key, value := range *vars.Vars { payload[key] = value }
Merge(payload, extra) ==
    IF extra # Nil
    THEN [k \in (DOMAIN payload) \cup (DOMAIN extra) |->
            IF k \in DOMAIN extra THEN extra[k] ELSE payload[k]]
    ELSE payload

\* the payload with ac added whatever the version
SigninPayloadAnyVersion(d, v) ==
    LET p1 == IF v.NS # Nil THEN Put(EmptyMap, "ns", GoString(v.NS.ptr))
              ELSE EmptyMap
        p2 == IF v.DB # Nil THEN Put(p1, "db", GoString(v.DB.ptr)) ELSE p1
        p3 == IF v.User # Nil THEN Put(p2, "user", GoString(v.User.ptr))
              ELSE p2
        p4 == IF v.Pass # Nil THEN Put(p3, "pass", GoString(v.Pass.ptr))
              ELSE p3
        p5 == IF v.AC # Nil
              THEN Put(p4, "ac", GoString(v.AC.ptr))
              ELSE IF d.Version = VersionLegacy /\ v.SC # Nil
              THEN Put(p4, "sc", GoString(v.SC.ptr))
              ELSE p4
    IN Merge(p5, v.Vars)

\* lines 251-279
SigninPayload(d, v) ==
    LET p1 == IF v.NS # Nil THEN Put(EmptyMap, "ns", GoString(v.NS.ptr))
              ELSE EmptyMap
        p2 == IF v.DB # Nil THEN Put(p1, "db", GoString(v.DB.ptr)) ELSE p1
        p3 == IF v.User # Nil THEN Put(p2, "user", GoString(v.User.ptr))
              ELSE p2
        p4 == IF v.Pass # Nil THEN Put(p3, "pass", GoString(v.Pass.ptr))
              ELSE p3
        p5 == IF d.Version = VersionCurrent /\ v.AC # Nil
              THEN Put(p4, "ac", GoString(v.AC.ptr))
              ELSE IF d.Version = VersionLegacy /\ v.SC # Nil
              THEN Put(p4, "sc", GoString(v.SC.ptr))
              ELSE p4
    IN Merge(p5, v.Vars)

Signin(d, v, resp) ==
    LET queryURL == [base |-> d.URL, path |-> "/signin", query |-> ""]
        built == setRequest(d, queryURL, "POST", SigninPayload(d, v), FALSE)
        res == processRequest(resp)
        result == UnmarshalAuthenticationResult(res.body)
    IN IF built.err # Nil
       THEN Outcome(Nil, <<>>, Returned("", Problem(built.err.error)))
       ELSE IF res.err # Nil
       THEN Outcome(built.req, <<built.req>>, Returned("", res.err))
       ELSE IF result.err # Nil
       THEN Outcome(built.req, <<built.req>>,
                    Returned("", Problem(result.err.error)))
       ELSE IF result.val.Code # StatusOK
       THEN Outcome(built.req, <<built.req>>,
                    Returned("", Problem(result.val.Details)))
       ELSE IF result.val.Token = Nil
       THEN Outcome(built.req, <<built.req>>, Panicked)
       ELSE Outcome(built.req, <<built.req>>,
                    Returned(result.val.Token.ptr, Nil))

\* lines 324-352
SignupPayload(d, v) ==
    LET p1 == IF v.NS # Nil THEN Put(EmptyMap, "ns", GoString(v.NS.ptr))
              ELSE EmptyMap
        p2 == IF v.DB # Nil THEN Put(p1, "db", GoString(v.DB.ptr)) ELSE p1
        p3 == IF v.User # Nil THEN Put(p2, "user", GoString(v.User.ptr))
              ELSE p2
        p4 == IF v.Pass # Nil THEN Put(p3, "pass", GoString(v.Pass.ptr))
              ELSE p3
        p5 == IF d.Version = VersionCurrent /\ v.AC # Nil
              THEN Put(p4, "ac", GoString(v.AC.ptr))
              ELSE IF d.Version = VersionLegacy /\ v.SC # Nil
              THEN Put(p4, "sc", GoString(v.SC.ptr))
              ELSE p4
    IN Merge(p5, v.Vars)

Signup(d, v, resp) ==
    LET queryURL == [base |-> d.URL, path |-> "/signup", query |-> ""]
        built == setRequest(d, queryURL, "POST", SignupPayload(d, v), FALSE)
        res == processRequest(resp)
        result == UnmarshalAuthenticationResult(res.body)
    IN IF built.err # Nil
       THEN Outcome(Nil, <<>>, Returned("", Problem(built.err.error)))
       ELSE IF res.err # Nil
       THEN Outcome(built.req, <<built.req>>, Returned("", res.err))
       ELSE IF result.err # Nil
       THEN Outcome(built.req, <<built.req>>,
                    Returned("", Problem(result.err.error)))
       ELSE IF result.val.Code # StatusOK
       THEN Outcome(built.req, <<built.req>>,
                    Returned("", Problem(result.val.Details)))
       ELSE IF result.val.Token = Nil
       THEN Outcome(built.req, <<built.req>>, Panicked)
       ELSE Outcome(built.req, <<built.req>>,
                    Returned(result.val.Token.ptr, Nil))

-----------------------------------------------------------------------------
(* The auth mutators.                                                      *)

\* Authenticate keeping the variables of the auth it replaces
AuthenticateMerging(d, auth) ==
    IF d.Auth # Nil /\ auth # Nil
    THEN [d EXCEPT !.Auth = [auth EXCEPT !.Vars = d.Auth.Vars]]
    ELSE [d EXCEPT !.Auth = auth]

Authenticate(d, auth) == [d EXCEPT !.Auth = auth]

Invalidate(d) == [d EXCEPT !.Auth = Nil]

-----------------------------------------------------------------------------
(* Inputs of the calls.                                                    *)

Configs ==
    [URL : URLInputs, Version : VersionInputs,
     Namespace : {ClientNamespace}, Database : {ClientDatabase},
     Auth : AuthPointers]

OptString(s) == {Nil, Ptr(s)}

\* the entries an extra-variables map is filled from, in this order
ExtraPool ==
    << [k |-> "ns", v |-> GoString("other")],
       [k |-> "sc", v |-> GoString("guests")],
       [k |-> "ch", v |-> GoChan] >>

ExtraMap(n) ==
    [k \in {ExtraPool[i].k : i \in 1..n} |->
        (CHOOSE e \in {ExtraPool[i] : i \in 1..n} : e.k = k).v]

ExtraInputs == {Nil} \cup {ExtraMap(n) : n \in 1..MaxExtra}

AuthVarInputs ==
    [NS : OptString("test"), DB : OptString("app"),
     AC : OptString("account"), SC : OptString("allusers"),
     Vars : ExtraInputs,
     User : OptString("root"), Pass : OptString("pw")]

QueryArgInputs ==
    { EmptyMap,
      [message |-> GoString("Hello World!")],
      [message |-> Nil, count |-> GoInt(1)],
      [message |-> GoString("Hello World!"), count |-> GoInt(1)],
      [message |-> Nil] }

SQLInputs == {"RETURN $message;"}

ErrorBody ==
    JObj([code |-> JNum(403), details |-> JStr("Auth failed"),
          description |-> JStr("Forbidden"),
          information |-> JStr("Not allowed")])
MistypedBody == JObj([code |-> JStr("403")])
TokenBody ==
    JObj([code |-> JNum(200), details |-> JStr("Authenticated"),
          token |-> JStr("eyJ0")])
NoTokenBody == JObj([code |-> JNum(200), details |-> JStr("Authenticated")])
RefusedBody == JObj([code |-> JNum(401), details |-> JStr("Invalid credentials")])
ResultsBody ==
    JArr(<< JObj([result |-> JNum(2), status |-> JStr("OK"),
                  time |-> JStr("1ms")]),
            JObj([result |-> JStr("x"), status |-> JStr("ERR"),
                  time |-> JStr("2ms")]) >>)

Bodies ==
    {ErrorBody, MistypedBody, TokenBody, NoTokenBody, RefusedBody,
     ResultsBody, NotJSON}

Statuses == {StatusOK, 403}

Responses ==
    {TransportFailure, ReadFailure(403)}
        \cup {Response(st, b) : st \in Statuses, b \in Bodies}

-----------------------------------------------------------------------------
(* The state machine: one client, its calls made one after the other.      *)

Call(op, arg, resp, out) ==
    [op |-> op, arg |-> arg,
     resp |-> IF out.sent = <<>> THEN Nil ELSE resp,
     req |-> out.req, sent |-> out.sent, ret |-> out.ret]

NoOutcome == Outcome(Nil, <<>>, Returned(Nil, Nil))

BuilderIdle == [idle |-> TRUE]

Init ==
    /\ \E config \in Configs :
          /\ db = SurrealDB(config)
          /\ last = Call("SurrealDB", config, Nil, NoOutcome)
    /\ bpc = "idle"
    /\ bld = BuilderIdle

\* the caller has taken the outcome of its previous call
Ready == bpc = "idle" /\ last.op \notin {"Query", "Signin", "Signup"}

DoQuery ==
    /\ Ready
    /\ \E sql \in SQLInputs, queryArgs \in QueryArgInputs, resp \in Responses :
          last' = Call("Query", [sql |-> sql, vars |-> queryArgs], resp,
                       Query(db, sql, queryArgs, resp))
    /\ UNCHANGED <<db, bpc, bld>>

\* Signin storing the token it returns as the client's auth
DoSigninInstallingToken ==
    /\ Ready
    /\ \E v \in AuthVarInputs, resp \in Responses :
          LET out == Signin(db, v, resp)
          IN /\ last' = Call("Signin", v, resp, out)
             /\ db' = IF out.ret.kind = "return" /\ out.ret.err = Nil
                      THEN Authenticate(db,
                              [Method |-> "Token",
                               Vars |-> [Username |-> "", Password |-> "",
                                         Namespace |-> "", Database |-> ""],
                               Token |-> out.ret.val, Scope |-> ""])
                      ELSE db
    /\ UNCHANGED <<bpc, bld>>

DoSignin ==
    /\ Ready
    /\ \E v \in AuthVarInputs, resp \in Responses :
          last' = Call("Signin", v, resp, Signin(db, v, resp))
    /\ UNCHANGED <<db, bpc, bld>>

DoSignup ==
    /\ Ready
    /\ \E v \in AuthVarInputs, resp \in Responses :
          last' = Call("Signup", v, resp, Signup(db, v, resp))
    /\ UNCHANGED <<db, bpc, bld>>

DoAuthenticate ==
    /\ Ready
    /\ \E auth \in AuthPointers :
          /\ db' = Authenticate(db, auth)
          /\ last' = Call("Authenticate", auth, Nil, NoOutcome)
    /\ UNCHANGED <<bpc, bld>>

DoInvalidate ==
    /\ Ready
    /\ db' = Invalidate(db)
    /\ last' = Call("Invalidate", Nil, Nil, NoOutcome)
    /\ UNCHANGED <<bpc, bld>>

\* the caller takes the outcome of Query, Signin or Signup and goes on
Resume ==
    /\ bpc = "idle"
    /\ last.op \in {"Query", "Signin", "Signup"}
    /\ last.ret.kind = "return"
    /\ last' = Call("Resume", Nil, Nil, NoOutcome)
    /\ UNCHANGED <<db, bpc, bld>>

Next ==
    \/ DoQuery
    \/ DoSignin
    \/ DoSignup
    \/ DoAuthenticate
    \/ DoInvalidate
    \/ Resume

Spec == Init /\ [][Next]_vars

-----------------------------------------------------------------------------
(* A second goroutine: setRequest building the headers of lines 94-129     *)
(* while Authenticate and Invalidate run on the caller's goroutine.        *)
(* Nothing orders the builder's loads of db.Auth with the mutators'        *)
(* stores, so every expression db.Auth.x is a load of its own: it gives    *)
(* the pointer stored now, or the one an earlier load left in a register.  *)

\* the pointers a load of db.Auth may give
Loads == {db.Auth} \cup (IF bld.loaded THEN {bld.reg} ELSE {})

BuilderAt(p, headers, user) ==
    [bld EXCEPT !.reg = p, !.loaded = TRUE, !.headers = headers,
                !.user = user]

\* a dereference of the loaded pointer p, going to position next
Step(p, next, headers, user) ==
    IF p = Nil
    THEN /\ bpc' = "fault"
         /\ bld' = [bld EXCEPT !.reg = p, !.loaded = TRUE]
    ELSE /\ bpc' = next
         /\ bld' = BuilderAt(p, headers, user)

\* lines 94-106
RaceBegin ==
    /\ bpc = "idle"
    /\ bpc' = "L109"
    /\ bld' = [reg |-> Nil, loaded |-> FALSE,
               headers |-> VersionHeaders(db, BaseHeaders),
               user |-> "", seen |-> {db.Auth}, muts |-> 0,
               header |-> EmptyMap]
    /\ UNCHANGED <<db, last>>

\* if db.Auth != nil
RaceL109 ==
    /\ bpc = "L109"
    /\ \E p \in Loads :
          /\ bpc' = IF p # Nil THEN "L110" ELSE "L131"
          /\ bld' = BuilderAt(p, bld.headers, bld.user)
    /\ UNCHANGED <<db, last>>

\* the switch taking the Scope case for Token
RaceL110TokenAsScope ==
    /\ bpc = "L110"
    /\ \E p \in Loads :
          Step(p,
               IF p = Nil THEN "fault"
               ELSE CASE p.Method = "Root" -> "L112u"
                      [] p.Method = "Token" -> "L124"
                      [] p.Method = "Scope" -> "L124"
                      [] OTHER -> "L131",
               bld.headers, bld.user)
    /\ UNCHANGED <<db, last>>

\* switch db.Auth.Method
RaceL110 ==
    /\ bpc = "L110"
    /\ \E p \in Loads :
          Step(p,
               IF p = Nil THEN "fault"
               ELSE CASE p.Method = "Root" -> "L112u"
                      [] p.Method = "Token" -> "L122"
                      [] p.Method = "Scope" -> "L124"
                      [] OTHER -> "L131",
               bld.headers, bld.user)
    /\ UNCHANGED <<db, last>>

\* db.Auth.Vars.Username, the first argument of Sprintf
RaceL112u ==
    /\ bpc = "L112u"
    /\ \E p \in Loads :
          Step(p, "L112p", bld.headers,
               IF p = Nil THEN "" ELSE p.Vars.Username)
    /\ UNCHANGED <<db, last>>

\* db.Auth.Vars.Password, then line 113
RaceL112p ==
    /\ bpc = "L112p"
    /\ \E p \in Loads :
          Step(p, "L115",
               IF p = Nil THEN bld.headers
               ELSE Put(bld.headers, "Authorization",
                        BasicAuth(bld.user, p.Vars.Password)),
               bld.user)
    /\ UNCHANGED <<db, last>>

\* if db.Auth.Vars.Namespace != ""
RaceL115 ==
    /\ bpc = "L115"
    /\ \E p \in Loads :
          Step(p,
               IF p # Nil /\ p.Vars.Namespace # "" THEN "L116" ELSE "L118",
               bld.headers, bld.user)
    /\ UNCHANGED <<db, last>>

\* headers["NS"] = db.Auth.Vars.Namespace
RaceL116 ==
    /\ bpc = "L116"
    /\ \E p \in Loads :
          Step(p, "L118",
               IF p = Nil THEN bld.headers
               ELSE Put(bld.headers, "NS", p.Vars.Namespace),
               bld.user)
    /\ UNCHANGED <<db, last>>

\* if db.Auth.Vars.Database != ""
RaceL118 ==
    /\ bpc = "L118"
    /\ \E p \in Loads :
          Step(p,
               IF p # Nil /\ p.Vars.Database # "" THEN "L119" ELSE "L131",
               bld.headers, bld.user)
    /\ UNCHANGED <<db, last>>

\* headers["DB"] = db.Auth.Vars.Database
RaceL119 ==
    /\ bpc = "L119"
    /\ \E p \in Loads :
          Step(p, "L131",
               IF p = Nil THEN bld.headers
               ELSE Put(bld.headers, "DB", p.Vars.Database),
               bld.user)
    /\ UNCHANGED <<db, last>>

\* headers["Authorization"] = "Bearer " + db.Auth.Token
RaceL122 ==
    /\ bpc = "L122"
    /\ \E p \in Loads :
          Step(p, "L131",
               IF p = Nil THEN bld.headers ELSE TokenHeaders(p, bld.headers),
               bld.user)
    /\ UNCHANGED <<db, last>>

\* headers["SC"] = db.Auth.Scope
RaceL124 ==
    /\ bpc = "L124"
    /\ \E p \in Loads :
          Step(p, "L125",
               IF p = Nil THEN bld.headers
               ELSE Put(bld.headers, "SC", p.Scope),
               bld.user)
    /\ UNCHANGED <<db, last>>

\* for key, value := range db.Auth.Vars.ToMap()
RaceL125 ==
    /\ bpc = "L125"
    /\ \E p \in Loads :
          Step(p, "L131",
               IF p = Nil THEN bld.headers
               ELSE [k \in (DOMAIN bld.headers) \cup (DOMAIN ToMap(p.Vars)) |->
                        IF k \in DOMAIN ToMap(p.Vars) THEN ToMap(p.Vars)[k]
                        ELSE bld.headers[k]],
               bld.user)
    /\ UNCHANGED <<db, last>>

\* lines 131-155: the headers go into the request
RaceL131 ==
    /\ bpc = "L131"
    /\ bpc' = "done"
    /\ bld' = [bld EXCEPT !.header = SetHeaders(bld.headers)]
    /\ UNCHANGED <<db, last>>

Building == bpc \notin {"idle", "done", "fault"}

\* Authenticate on the other goroutine, while the build is under way
RaceAuthenticate ==
    /\ Building
    /\ bld.muts < MaxMut
    /\ \E auth \in AuthPointers :
          /\ db' = Authenticate(db, auth)
          /\ bld' = [bld EXCEPT !.seen = @ \cup {auth}, !.muts = @ + 1]
    /\ UNCHANGED <<bpc, last>>

\* Invalidate on the other goroutine, while the build is under way
RaceInvalidate ==
    /\ Building
    /\ bld.muts < MaxMut
    /\ db' = Invalidate(db)
    /\ bld' = [bld EXCEPT !.seen = @ \cup {Nil}, !.muts = @ + 1]
    /\ UNCHANGED <<bpc, last>>

NextRace ==
    \/ RaceBegin
    \/ RaceL109
    \/ RaceL110
    \/ RaceL112u
    \/ RaceL112p
    \/ RaceL115
    \/ RaceL116
    \/ RaceL118
    \/ RaceL119
    \/ RaceL122
    \/ RaceL124
    \/ RaceL125
    \/ RaceL131
    \/ RaceAuthenticate
    \/ RaceInvalidate

SpecRace == Init /\ [][NextRace]_vars

-----------------------------------------------------------------------------
(* Properties.                                                             *)

\* the last call was Query, Signin or Signup and built a request
Built == last.op \in {"Query", "Signin", "Signup"} /\ last.req # Nil

IsRoot(auth) == auth # Nil /\ auth.Method = "Root"

\* the header names of the two protocol versions
NamespaceHeader(version) == IF version = VersionLegacy THEN "NS" ELSE "surreal-ns"
DatabaseHeader(version) == IF version = VersionLegacy THEN "DB" ELSE "surreal-db"

\* C1: with Root auth and a non-empty namespace (database) override, the
\* namespace (database) header of the client's protocol version carries the
\* override, and no scope header of the request carries the client-level
\* value.
C1_OverrideReplacesScope ==
    (Built /\ IsRoot(db.Auth)) =>
        LET h == last.req.header
        IN /\ db.Auth.Vars.Namespace # "" =>
                /\ Get(h, NamespaceHeader(db.Version)) = db.Auth.Vars.Namespace
                /\ \A n \in {"NS", "surreal-ns"} :
                      Has(h, n) => Get(h, n) # db.Namespace
           /\ db.Auth.Vars.Database # "" =>
                /\ Get(h, DatabaseHeader(db.Version)) = db.Auth.Vars.Database
                /\ \A n \in {"DB", "surreal-db"} :
                      Has(h, n) => Get(h, n) # db.Database

\* C2: a built request never carries headers of both the NS/DB pair and the
\* surreal-ns/surreal-db pair.
C2_OneScopePair ==
    Built =>
        LET h == last.req.header
        IN ~ /\ Has(h, "NS") \/ Has(h, "DB")
             /\ Has(h, "surreal-ns") \/ Has(h, "surreal-db")

NoRootOverride ==
    ~ /\ IsRoot(db.Auth)
      /\ db.Auth.Vars.Namespace # "" \/ db.Auth.Vars.Database # ""

\* C3: the constructor leaves a recognised version (anything but the legacy
\* and current strings becomes current), and a built request carries NS and
\* DB under legacy and surreal-ns and surreal-db otherwise, holding the
\* client's namespace and database when no Root override is set.
C3_VersionSelectsHeaderNames ==
    /\ db.Version \in {VersionLegacy, VersionCurrent}
    /\ last.op = "SurrealDB" =>
          db.Version = IF last.arg.Version = VersionLegacy
                       THEN VersionLegacy ELSE VersionCurrent
    /\ Built =>
          LET h == last.req.header
              ns == IF db.Version = VersionLegacy THEN "NS" ELSE "surreal-ns"
              dbn == IF db.Version = VersionLegacy THEN "DB" ELSE "surreal-db"
          IN /\ Has(h, ns)
             /\ Has(h, dbn)
             /\ NoRootOverride =>
                   /\ Get(h, ns) = db.Namespace
                   /\ Get(h, dbn) = db.Database

C3_Witness ==
    /\ Built
    /\ db.Version = VersionLegacy
    /\ db.Auth = Nil
    /\ Get(last.req.header, "NS") = ClientNamespace
    /\ Get(last.req.header, "DB") = ClientDatabase

\* C4: every Query, Signin and Signup returns, with a success value or with
\* one error and no value; none ends in a panic.
C4_ReturnsValueOrError ==
    last.op \in {"Query", "Signin", "Signup"} =>
        /\ last.ret.kind = "return"
        /\ last.ret.err # Nil =>
              last.ret.val = IF last.op = "Query" THEN Nil ELSE ""

\* C5: after Authenticate the stored auth is its argument, whatever was
\* stored before; after Invalidate it is absent; neither reports an error.
C5_MutatorsReplaceAuth ==
    /\ last.op = "Authenticate" =>
          db.Auth = last.arg /\ last.ret = Returned(Nil, Nil)
    /\ last.op = "Invalidate" =>
          db.Auth = Nil /\ last.ret = Returned(Nil, Nil)

C5_Witness ==
    /\ last.op = "Authenticate"
    /\ last.arg # Nil
    /\ last.arg.Method = "Token"
    /\ db.Auth = last.arg

\* base64 of "username:password", from RFC 4648
Base64Of(username, password) ==
    CASE username = "root" /\ password = "pw" -> "cm9vdDpwdw=="
      [] username = "ab" /\ password = "pw" -> "YWI6cHc="

\* the authentication headers that auth calls for are those of header
AuthHeadersMatch(auth, h) ==
    /\ auth = Nil => ~Has(h, "Authorization") /\ ~Has(h, "SC")
    /\ auth # Nil =>
        /\ auth.Method = "Root" =>
              /\ Get(h, "Authorization") =
                    "Basic " \o Base64Of(auth.Vars.Username, auth.Vars.Password)
              /\ ~Has(h, "SC")
        /\ auth.Method = "Token" =>
              /\ Get(h, "Authorization") = "Bearer " \o auth.Token
              /\ ~Has(h, "SC")
        /\ auth.Method = "Scope" =>
              /\ Has(h, "SC")
              /\ Get(h, "SC") = auth.Scope
              /\ Has(h, "username") /\ Get(h, "username") = auth.Vars.Username
              /\ Has(h, "password") /\ Get(h, "password") = auth.Vars.Password
              /\ Has(h, "namespace") /\ Get(h, "namespace") = auth.Vars.Namespace
              /\ Has(h, "database") /\ Get(h, "database") = auth.Vars.Database
              /\ ~Has(h, "Authorization")
    /\ ~(Has(h, "Authorization") /\ Has(h, "SC"))

\* C6: the authentication headers of a built request are those of the auth
\* stored when it was built: Basic for Root, Bearer for Token, SC and the
\* four credential headers for Scope, none when auth is absent, and never
\* the headers of two schemes.
C6_AuthHeadersFollowAuth ==
    Built => AuthHeadersMatch(db.Auth, last.req.header)

C6_Witness ==
    /\ Built
    /\ db.Auth # Nil
    /\ db.Auth.Method = "Scope"
    /\ Get(last.req.header, "SC") = "acct"
    /\ Get(last.req.header, "namespace") = "ons"

\* C7: a request built while Authenticate or Invalidate runs on another
\* goroutine has the authentication headers of one of the auth states stored
\* during the build, and the build does not fault.
C7_BuildUsesOneSnapshot ==
    /\ bpc # "fault"
    /\ bpc = "done" => \E a \in bld.seen : AuthHeadersMatch(a, bld.header)

\* C7, amended: a build that no Authenticate or Invalidate overlaps does not
\* fault and gives the authentication headers of the stored auth.
C7_UndisturbedBuild ==
    /\ bpc = "fault" => bld.muts > 0
    /\ (bpc = "done" /\ bld.muts = 0) => AuthHeadersMatch(db.Auth, bld.header)

C7_Witness ==
    /\ bpc = "done"
    /\ bld.muts = 0
    /\ IsRoot(db.Auth)
    /\ Get(bld.header, "Authorization") = "Basic cm9vdDpwdw=="

\* the last call handed a request to the transport
Sent == last.op \in {"Query", "Signin", "Signup"} /\ last.resp # Nil

NoValue == last.ret.val = IF last.op = "Query" THEN Nil ELSE ""

\* the response bodies that are a JSON object a RequestError decodes from,
\* and the RequestError each one is
ErrorObjects == {ErrorBody, RefusedBody, TokenBody, NoTokenBody}

ErrorObjectOf(body) ==
    CASE body = ErrorBody ->
            [Code |-> 403, Details |-> "Auth failed",
             Description |-> "Forbidden", Information |-> "Not allowed"]
      [] body = RefusedBody ->
            [Code |-> 401, Details |-> "Invalid credentials",
             Description |-> "", Information |-> ""]
      [] body \in {TokenBody, NoTokenBody} ->
            [Code |-> 200, Details |-> "Authenticated",
             Description |-> "", Information |-> ""]

\* C8: a response with a status other than 200 gives an error and no result:
\* the decoded RequestError as it is when the body decodes, otherwise the
\* synthesized one with code 500 and the decode failure in information; a
\* transport failure gives code 500 with details "Request problems detected".
C8_Non200GivesError ==
    Sent =>
        /\ last.resp.kind = "fail" =>
              /\ last.ret.kind = "return"
              /\ NoValue
              /\ last.ret.err # Nil
              /\ last.ret.err.Code = 500
              /\ last.ret.err.Details = "Request problems detected"
        /\ (last.resp.kind = "response" /\ last.resp.status # 200) =>
              /\ last.ret.kind = "return"
              /\ NoValue
              /\ last.ret.err # Nil
              /\ last.resp.readOK =>
                    IF last.resp.body \in ErrorObjects
                    THEN last.ret.err = ErrorObjectOf(last.resp.body)
                    ELSE /\ last.ret.err.Code = 500
                         /\ last.ret.err.Details = "Request problems detected"
                         /\ last.ret.err.Information \in
                               {SyntaxErrorText, TypeErrorText}

C8_Witness ==
    /\ Sent
    /\ last.op = "Query"
    /\ last.resp.kind = "response"
    /\ last.resp.status = 403
    /\ last.resp.body = RefusedBody
    /\ last.ret.err # Nil
    /\ last.ret.err.Code = 401

\* the last call was Signin or Signup and got status 200 with a body that
\* decodes as an auth result
AuthResultReceived ==
    /\ Sent
    /\ last.op \in {"Signin", "Signup"}
    /\ last.resp.kind = "response"
    /\ last.resp.readOK
    /\ last.resp.status = 200
    /\ last.resp.body \in ErrorObjects

\* C9: Signin and Signup, on status 200 and a decoded auth result, return an
\* empty token and an error of code 500 with the result's details as
\* information when the embedded code is not 200, and the token and no error
\* when it is 200 and the token is present.
C9_AuthResultDecides ==
    AuthResultReceived =>
        LET f == last.resp.body.f
        IN /\ f["code"].n # 200 =>
                /\ last.ret.kind = "return"
                /\ last.ret.val = ""
                /\ last.ret.err # Nil
                /\ last.ret.err.Code = 500
                /\ last.ret.err.Information = f["details"].s
           /\ (f["code"].n = 200 /\ "token" \in DOMAIN f) =>
                /\ last.ret.kind = "return"
                /\ last.ret.val = f["token"].s
                /\ last.ret.err = Nil

C9_Witness ==
    /\ AuthResultReceived
    /\ last.op = "Signup"
    /\ last.resp.body = RefusedBody
    /\ last.ret.err # Nil
    /\ last.ret.err.Information = "Invalid credentials"

\* the last call was Signin or Signup and built a request
BuiltAuthCall == Built /\ last.op \in {"Signin", "Signup"}

NamedKeys == {"ns", "db", "user", "pass", "ac", "sc"}

\* the optional field of SigninVars / SignupVars behind a payload key
FieldOf(v, k) ==
    CASE k = "ns" -> v.NS
      [] k = "db" -> v.DB
      [] k = "user" -> v.User
      [] k = "pass" -> v.Pass
      [] k = "ac" -> v.AC
      [] k = "sc" -> v.SC

\* C10: the payload of Signin / Signup has ns, db, user, pass exactly when
\* the field is present, ac only under the current version with AC given, sc
\* only under the legacy version with SC given, never both, and no other key
\* when no extra variables are supplied.
C10_PayloadKeys ==
    BuiltAuthCall =>
        LET keys == DOMAIN last.req.body.f
            v == last.arg
        IN /\ \A k \in {"ns", "db", "user", "pass"} :
                 k \in keys <=> FieldOf(v, k) # Nil
           /\ "ac" \in keys => (db.Version = VersionCurrent /\ v.AC # Nil)
           /\ "sc" \in keys => (db.Version = VersionLegacy /\ v.SC # Nil)
           /\ ~("ac" \in keys /\ "sc" \in keys)
           /\ v.Vars = Nil => keys \subseteq NamedKeys

\* C10, amended: the same for every key that the extra variables do not
\* supply; the extra variables are all in the payload with their own values,
\* and the payload has no key besides the named ones and theirs.
C10_PayloadKeysBesidesExtra ==
    BuiltAuthCall =>
        LET keys == DOMAIN last.req.body.f
            v == last.arg
            extra == IF v.Vars = Nil THEN {} ELSE DOMAIN v.Vars
        IN /\ \A k \in {"ns", "db", "user", "pass"} \ extra :
                 /\ k \in keys <=> FieldOf(v, k) # Nil
                 /\ k \in keys => last.req.body.f[k] = JStr(FieldOf(v, k).ptr)
           /\ "ac" \notin extra =>
                 ("ac" \in keys => (db.Version = VersionCurrent /\ v.AC # Nil))
           /\ "sc" \notin extra =>
                 ("sc" \in keys => (db.Version = VersionLegacy /\ v.SC # Nil))
           /\ {"ac", "sc"} \cap extra = {} =>
                 ~("ac" \in keys /\ "sc" \in keys)
           /\ keys \subseteq NamedKeys \cup extra
           /\ \A k \in extra :
                 k \in keys /\ last.req.body.f[k] = JStr(v.Vars[k].s)

C10_Witness ==
    /\ BuiltAuthCall
    /\ last.op = "Signin"
    /\ last.arg.Vars # Nil
    /\ last.arg.NS = Nil
    /\ last.arg.User # Nil
    /\ last.arg.AC # Nil
    /\ db.Version = VersionCurrent
    /\ DOMAIN last.req.body.f = {"ns", "sc", "user", "ac"}
    /\ last.req.body.f["ns"] = JStr("other")

\* the query string of each vars mapping of the model: its non-nil entries
\* as key=value in URL encoding, joined by &
QueryStringOf(queryArgs) ==
    CASE queryArgs = EmptyMap -> ""
      [] queryArgs = [message |-> Nil] -> ""
      [] queryArgs = [message |-> GoString("Hello World!")] ->
            "message=Hello+World%21"
      [] queryArgs = [message |-> Nil, count |-> GoInt(1)] -> "count=1"
      [] queryArgs = [message |-> GoString("Hello World!"), count |-> GoInt(1)] ->
            "count=1&message=Hello+World%21"

\* C11: Query sends POST {baseURL}/sql with the SQL text as raw body and a
\* query string of key=value for exactly the non-nil entries of vars (none
\* at all when no entry is non-nil); on status 200 with a JSON array of
\* results it returns them in the server's order and no error.
C11_QueryRequestAndResults ==
    /\ (Built /\ last.op = "Query") =>
          LET q == QueryStringOf(last.arg.vars)
          IN /\ last.req.method = "POST"
             /\ last.req.url = IF q = "" THEN db.URL \o "/sql"
                               ELSE db.URL \o "/sql?" \o q
             /\ last.req.body = [t |-> "raw", s |-> last.arg.sql]
    /\ ( /\ Sent
         /\ last.op = "Query"
         /\ last.resp.kind = "response"
         /\ last.resp.readOK
         /\ last.resp.status = 200
         /\ last.resp.body = ResultsBody ) =>
          /\ last.ret.kind = "return"
          /\ last.ret.err = Nil
          /\ last.ret.val =
                << [Result |-> JNum(2), Status |-> "OK", Time |-> "1ms"],
                   [Result |-> JStr("x"), Status |-> "ERR", Time |-> "2ms"] >>

C11_Witness ==
    /\ Built
    /\ last.op = "Query"
    /\ last.arg.vars = [message |-> Nil, count |-> GoInt(1)]
    /\ last.req.url = "http://localhost:8000/sql?count=1"
    /\ last.resp.kind = "response"
    /\ last.resp.status = 200
    /\ last.resp.body = ResultsBody
    /\ last.ret.err = Nil
    /\ Len(last.ret.val) = 2

NetworkCall == last.op \in {"Query", "Signin", "Signup"}

Unbuildable ==
    \/ db.URL = BadURL
    \/ /\ last.op \in {"Signin", "Signup"}
       /\ last.arg.Vars # Nil
       /\ \E k \in DOMAIN last.arg.Vars : last.arg.Vars[k] = GoChan

C13_CallsLeaveConfiguration ==
    [][ /\ last'.op \in {"Query", "Signin", "Signup"} => db' = db
        /\ db'.Auth # db.Auth => last'.op \in {"Authenticate", "Invalidate"}
        /\ (last' # last /\ last'.op \in {"Authenticate", "Invalidate"}) =>
              /\ db' = [db EXCEPT !.Auth = db'.Auth]
              /\ last'.req = Nil
              /\ last'.sent = <<>>
      ]_vars

C13_Witness ==
    /\ last.op = "Signin"
    /\ last.ret.kind = "return"
    /\ last.ret.err = Nil
    /\ last.ret.val = "eyJ0"
    /\ db.Auth = Nil
    /\ ~Has(last.req.header, "Authorization")

UnknownMethod(auth) ==
    auth # Nil /\ auth.Method \notin {"Root", "Token", "Scope"}

\* the headers of a request of a client without auth
UnauthenticatedHeader ==
    IF db.Version = VersionLegacy
    THEN ("Accept" :> "application/json" @@ "Content-Type" :> "application/json"
            @@ "Ns" :> db.Namespace @@ "Db" :> db.Database)
    ELSE ("Accept" :> "application/json" @@ "Content-Type" :> "application/json"
            @@ "Surreal-Ns" :> db.Namespace @@ "Surreal-Db" :> db.Database)

\* C14: Authenticate stores an auth whose Method is none of Root, Token and
\* Scope without error, and with it stored the request builder reports no
\* error of its own and gives exactly the headers of an unauthenticated
\* client: no Authorization, no SC.
C14_UnknownMethodIsNoAuth ==
    /\ (last.op = "Authenticate" /\ UnknownMethod(last.arg)) =>
          db.Auth = last.arg /\ last.ret = Returned(Nil, Nil)
    /\ (NetworkCall /\ UnknownMethod(db.Auth)) =>
          /\ last.req = Nil <=> Unbuildable
          /\ last.req # Nil =>
                /\ ~Has(last.req.header, "Authorization")
                /\ ~Has(last.req.header, "SC")
                /\ last.req.header = UnauthenticatedHeader

C14_Witness ==
    /\ Built
    /\ UnknownMethod(db.Auth)
    /\ db.Auth.Method = "root"
    /\ db.Auth.Vars.Namespace = "ons"
    /\ ~Has(last.req.header, "Authorization")
    /\ Get(last.req.header, "surreal-ns") = ClientNamespace

====
